---- MODULE Spec2Model ----
(***************************************************************************)
(* smallsh (src/kiro_smallsh/smallsh.c): the interactive loop of main, the *)
(* parser, the built-ins, the process executor, the background job         *)
(* registry, exit cleanup and the SIGTSTP handler, together with the       *)
(* kernel's process table as far as fork/waitpid/kill observe it.          *)
(*                                                                         *)
(* A line is a sequence of one-character strings, a token a non-empty      *)
(* sequence of characters, and the C NULL pointer the empty sequence.      *)
(* malloc is taken to succeed.                                             *)
(* The program is built with gcc --std=gnu99, under which signal() gives   *)
(* a handler that stays installed and restarts the interrupted call.       *)
(***************************************************************************)
EXTENDS Integers, Sequences, FiniteSets, TLC

\* ---------------------------------------------------------------- constants
MAX_LINE_LENGTH == 2048
MAX_ARGS == 512
MAX_BG_PROCESSES == 100
SIGTERM == 15
SIGKILL == 9
SIGINT == 2

\* ------------------------------------------------------------------- bounds
\* Children forked in one session.
MaxProcs == 2
\* Children forked in a session observed for what it does with its lines.
MaxLineProcs == 1
\* Characters of a line handed to parse_command by itself.
MaxLen == 5
\* How far around MAX_ARGS tokens and MAX_LINE_LENGTH characters the lines
\* handed to tokenize_line by itself go.
Margin == 1

NULL == << >>

\* Exit codes a child may end with: success and the exit(1) of a failed child.
ExitCodes == {0, 1}
\* Signals that may end a child: the two that exit cleanup sends.
TermSignals == {SIGKILL, SIGTERM}

\* --------------------------------------------------------------- tokenizer
IsDelim(c) == c \in {" ", "\t", "\n"}

\* Where strtok finds a token: a non-delimiter at the start of the line or
\* after a delimiter.
TokenStartsAt(line, i) ==
  ~IsDelim(line[i]) /\ (i = 1 \/ IsDelim(line[i - 1]))

\* The places of a line where a token starts.
TokenStarts(line) == {i \in 1..Len(line) : TokenStartsAt(line, i)}

\* Where the token that starts at i ends: before the next delimiter, or at
\* the end of the line.
TokenEnd(line, i) ==
  CHOOSE j \in i..Len(line) :
    /\ \A k \in i..j : ~IsDelim(line[k])
    /\ (j = Len(line) \/ IsDelim(line[j + 1]))

\* strtok(line, " \t\n") until exhausted: every maximal run of
\* non-delimiters, in the order of the line.
StrtokAll(line) ==
  LET IsStart(i) == TokenStartsAt(line, i)
      starts == SelectSeq([i \in 1..Len(line) |-> i], IsStart)
  IN [k \in 1..Len(starts) |->
        SubSeq(line, starts[k], TokenEnd(line, starts[k]))]

\* tokenize_line: count -1 and what it reports on error, else the tokens and
\* their number.
\* Faulty variant: the line that fills the array is refused.
TooManyTokens_AtLimit(found, max_tokens) == found >= max_tokens

\* The loop stopped at max_tokens with a token left: token != NULL &&
\* token_count >= max_tokens, for a line that holds found tokens.
TooManyTokens(found, max_tokens) == found > max_tokens

tokenize_line(line, max_tokens) ==
  LET all == StrtokAll(line) IN
  IF Len(line) > MAX_LINE_LENGTH
    THEN [count |-> -1, tokens |-> << >>, err |-> "Command line too long"]
    ELSE IF TooManyTokens(Len(all), max_tokens)
      THEN [count |-> -1, tokens |-> << >>, err |-> "Too many arguments"]
      ELSE [count |-> Len(all), tokens |-> all, err |-> ""]

\* ------------------------------------------------------------------ parser
init_command ==
  [command |-> NULL, args |-> << >>, input_file |-> NULL,
   output_file |-> NULL, background |-> FALSE]

\* Faulty variant: a later argument is put in front of the earlier ones.
AddArg_InFront(cmd, tok) ==
  IF Len(cmd.args) = 0
    THEN [cmd EXCEPT !.command = tok, !.args = << tok >>]
    ELSE [cmd EXCEPT !.args = << tok >> \o cmd.args]

\* A regular token: the command and args[0] when it is the first, else an argument.
AddArg(cmd, tok) ==
  IF Len(cmd.args) = 0
    THEN [cmd EXCEPT !.command = tok, !.args = << tok >>]
    ELSE [cmd EXCEPT !.args = Append(cmd.args, tok)]

\* Faulty variant: any token that begins with the operator's character counts.
IsOperator_Prefix(tok, op) == tok[1] = op

\* strcmp(tokens[i], op) == 0: the token is the operator standing alone.
IsOperator(tok, op) == tok = << op >>

\* Faulty variant: an operator without a filename is passed over.
MissingTarget_Ignored(cmd, op) == [result |-> 0, cmd |-> cmd, err |-> ""]

\* A redirection operator is the last token: the report, and return -1.
MissingTarget(cmd, op) ==
  [result |-> -1, cmd |-> cmd,
   err |-> IF op = "<"
     THEN "Missing filename for input redirection"
     ELSE "Missing filename for output redirection"]

\* Faulty variant: & counts wherever it stands.
IsLastToken_Always(i, token_count) == TRUE

\* i == token_count - 1 of the & branch, for tokens counted from 1.
IsLastToken(i, token_count) == i = token_count

\* The token loop of parse_command from index i on.
RECURSIVE ProcessTokens(_, _, _)
ProcessTokens(tokens, i, cmd) ==
  LET n == Len(tokens) IN
  IF i > n
    THEN [result |-> 0, cmd |-> cmd, err |-> ""]
    ELSE IF IsOperator(tokens[i], "<")
      THEN IF i + 1 > n
        THEN MissingTarget(cmd, "<")
        ELSE ProcessTokens(tokens, i + 2, [cmd EXCEPT !.input_file = tokens[i + 1]])
    ELSE IF IsOperator(tokens[i], ">")
      THEN IF i + 1 > n
        THEN MissingTarget(cmd, ">")
        ELSE ProcessTokens(tokens, i + 2, [cmd EXCEPT !.output_file = tokens[i + 1]])
    ELSE IF IsOperator(tokens[i], "&")
      THEN IF IsLastToken(i, n)
        THEN ProcessTokens(tokens, i + 1, [cmd EXCEPT !.background = TRUE])
        ELSE ProcessTokens(tokens, i + 1, AddArg(cmd, tokens[i]))
    ELSE ProcessTokens(tokens, i + 1, AddArg(cmd, tokens[i]))

\* Index of the first character of line that is neither a space nor a tab.
RECURSIVE SkipBlanks(_, _)
SkipBlanks(line, i) ==
  IF i <= Len(line) /\ line[i] \in {" ", "\t"} THEN SkipBlanks(line, i + 1) ELSE i

\* Faulty variant: no line is taken for a comment.
IsComment_Never(c) == FALSE

\* *trimmed == '#'.
IsComment(c) == c = "#"

\* parse_command: result 0 on success, -1 on error, 1 for blank/comment
\* lines; cmd as it leaves it; err what it reports, "" when nothing.
parse_command(line) ==
  LET t == SkipBlanks(line, 1) IN
  IF t > Len(line) \/ line[t] = "\n"
    THEN [result |-> 1, cmd |-> init_command, err |-> ""]
    ELSE IF IsComment(line[t])
      THEN [result |-> 1, cmd |-> init_command, err |-> ""]
      ELSE LET tk == tokenize_line(line, MAX_ARGS) IN
        IF tk.count <= 0
          THEN [result |-> -1, cmd |-> init_command, err |-> tk.err]
          ELSE LET r == ProcessTokens(tk.tokens, 1, init_command) IN
            IF r.result = -1
              THEN r
              ELSE IF r.cmd.command = NULL
                THEN [result |-> -1, cmd |-> r.cmd, err |-> ""]
                ELSE r

\* ------------------------------------------------------------- input lines
LnBlank == << " ", "\n" >>
LnComment == << "#", "x", "\n" >>
LnNoProgram == << "<", "\n" >>
LnExit == << "e", "x", "i", "t", "\n" >>
LnCd == << "c", "d", "\n" >>
LnCdDir == << "c", "d", " ", "d", "\n" >>
LnCdTwo == << "c", "d", " ", "d", " ", "d", "\n" >>
LnStatus == << "s", "t", "a", "t", "u", "s", "\n" >>
LnStatusBg == << "s", "t", "a", "t", "u", "s", " ", "&", "\n" >>
LnLs == << "l", "s", "\n" >>
LnLsBg == << "l", "s", " ", "&", "\n" >>
LnNewline == << "\n" >>
\* Blanks and no newline: the last line of an input that ends without one.
LnBlanksAtEnd == << " ", "\t" >>
LnIndentedComment == << " ", "\t", "#", "l", "s", " ", "&", "\n" >>
LnLsIn == << "l", "s", " ", "<", "\n" >>
LnLsOut == << "l", "s", " ", ">", "\n" >>
LnLsInOut == << "l", "s", " ", "<", " ", "f", " ", ">", "\n" >>
LnLsInBg == << "l", "s", " ", "<", " ", "f", " ", "&", "\n" >>
LnLsOutBg == << "l", "s", " ", ">", " ", "g", " ", "&", "\n" >>
LnExitBg == << "e", "x", "i", "t", " ", "&", "\n" >>
LnCdBg == << "c", "d", " ", "&", "\n" >>
\* "cd", blanks up to column MAX_LINE_LENGTH, then "x" and the newline.
LnCdLong ==
  [i \in 1..(MAX_LINE_LENGTH + 2) |->
     IF i = 1 THEN "c"
     ELSE IF i = 2 THEN "d"
     ELSE IF i = MAX_LINE_LENGTH + 1 THEN "x"
     ELSE IF i = MAX_LINE_LENGTH + 2 THEN "\n"
     ELSE " "]

\* The lines the session's standard input may deliver, numbered.
Lines ==
  << LnBlank, LnComment, LnNoProgram, LnExit, LnCd, LnCdDir, LnCdTwo,
     LnStatus, LnStatusBg, LnLs, LnLsBg, LnNewline, LnBlanksAtEnd,
     LnIndentedComment, LnLsIn, LnLsOut, LnLsInOut, LnLsInBg, LnLsOutBg,
     LnExitBg, LnCdBg, LnCdLong >>

\* fgets(input_line, MAX_LINE_LENGTH + 1, stdin) and the discard of the rest
\* of an over-long line: the first MAX_LINE_LENGTH characters are kept.
Fgets(raw) ==
  IF Len(raw) > MAX_LINE_LENGTH THEN SubSeq(raw, 1, MAX_LINE_LENGTH) ELSE raw

\* What main prints when fgets filled the buffer without reaching a newline.
Truncated(raw) ==
  LET input_line == Fgets(raw)
      len == Len(input_line) IN
  IF len = MAX_LINE_LENGTH /\ input_line[len] # "\n"
    THEN << << "Command line too long - truncated" >> >>
    ELSE << >>

\* The lines of a session at the prompt, and those of a session that runs
\* commands with redirections under an environment without HOME.
ScriptSession ==
  {k \in DOMAIN Lines : Lines[k] \notin {LnLsInBg, LnLsOutBg}}
ScriptRedirect ==
  {k \in DOMAIN Lines :
     Lines[k] \in {LnBlank, LnExit, LnCd, LnStatus, LnLs, LnLsBg, LnLsInBg,
                   LnLsOutBg}}

\* main's parse_result and cmd for each line it may read.
Parsed == [k \in DOMAIN Lines |-> parse_command(Fgets(Lines[k]))]

\* What the shell writes for a report err of parse_command.
Reported(err) == IF err = "" THEN << >> ELSE << << err >> >>

\* What main and parse_command write for each line main may read, before
\* any dispatch: the truncation notice, then the parser's report.
Notice ==
  [k \in DOMAIN Lines |-> Truncated(Lines[k]) \o Reported(Parsed[k].err)]

\* ------------------------------------------------------------------- state
VARIABLES
  pc,                    \* where main is: poll, prompt, fgwait, cleanup, grace, done
  background_processes,  \* the registry entries [pid, active] added since Init
  bg_process_count,      \* entries in use, those of before Init included
  foreground_only_mode,
  last_exit_status,
  last_signal,
  status,                \* main's local, written through last_status
  cwd,                   \* the shell's working directory
  home,                  \* getenv("HOME"), NULL when unset
  procs,                 \* kernel: pid -> the child forked with that pid
  sigchld_ignored,       \* SIGCHLD disposition inherited by the shell
  fg_pid,                \* the child a blocking waitpid is waiting for, 0 if none
  ci,                    \* entry the loop of cleanup_all_background_processes is at
  exit_code,             \* -1 while the shell runs
  out,                   \* what the shell's latest step wrote
  reports,               \* pid -> number of "is done" reports written
  sent,                  \* pid -> signals the shell sent it, in order
  stale_waits,           \* waitpid calls on a child already collected
  tstp_count,            \* SIGTSTP deliveries so far, modulo 2
  notice,                \* what the SIGTSTP handler wrote last
  nforks,                \* children forked since Init
  builtin_type,          \* main's local: the class of the command dispatched last
  last_fg,               \* the foreground child collected last: its status
                         \* and the background flag of its command
  sigint_disposition,    \* the shell's disposition of SIGINT
  script,                \* numbers of the lines standard input may deliver
  nproc,                 \* children the system lets the session fork in all
  parse_line,            \* parse_command by itself: its argument line,
  parse_result,          \*   its return value,
  parse_cmd,             \*   and *cmd when it returns
  tk_count,              \* tokenize_line by itself: its return value
  tk_tokens              \*   and the tokens it leaves to its caller

\* What no step of the session assigns: the disposition that
\* setup_signal_handlers set before the loop, what standard input may hold,
\* the limit after which fork() fails, and the observation of a call of parse_command by itself; within the
\* session the call is part of the step that reads the line.
fixed ==
  << sigint_disposition, script, nproc, parse_line, parse_result, parse_cmd,
     tk_count, tk_tokens >>

vars ==
  << pc, background_processes, bg_process_count, foreground_only_mode,
     last_exit_status, last_signal, status, cwd, home, procs, sigchld_ignored,
     fg_pid, ci, exit_code, out, reports, sent, stale_waits, tstp_count,
     notice, nforks, builtin_type, last_fg, sigint_disposition, script,
     nproc, parse_line, parse_result, parse_cmd, tk_count, tk_tokens >>

Pids == DOMAIN procs

\* ----------------------------------------------------------------- kernel
\* The null device, and a standard stream left as the shell has it.
DevNull == << "/", "d", "e", "v", "/", "n", "u", "l", "l" >>
Inherited == NULL

\* Faulty variant: a background child keeps the default disposition.
ChildSigint_Default(run_background) == "SIG_DFL"

\* The child's disposition of SIGINT.
ChildSigint(run_background) ==
  IF run_background THEN "SIG_IGN" ELSE "SIG_DFL"

\* The child's disposition of SIGTSTP.
ChildSigtstp == "SIG_IGN"

\* Faulty variant: a stream without a redirection always goes to the null
\* device.
StreamOf_AlwaysNull(file, is_background) ==
  IF file # NULL THEN file ELSE DevNull

\* setup_io_redirection for one stream: what it is bound to when the child
\* calls execvp. A failing open or dup2 ends the child with exit(1)
\* (ChildExits).
StreamOf(file, is_background) ==
  IF file # NULL THEN file
  ELSE IF is_background THEN DevNull
  ELSE Inherited

\* A child when it calls execvp: it holds its copy of cmd->background and of
\* run_background, its signal dispositions and its standard streams.
NewChild(command, run_background) ==
  [state |-> "running", how |-> "none", n |-> 0,
   background |-> command.background, run_background |-> run_background,
   sigint |-> ChildSigint(run_background), sigtstp |-> ChildSigtstp,
   stdin |-> StreamOf(command.input_file, run_background),
   stdout |-> StreamOf(command.output_file, run_background)]

\* What is left of a child once the parent has its status (waitpid, "reaped")
\* or the kernel dropped it ("gone"): nothing but that it cannot be waited for.
Collected(proc, state) ==
  [state |-> state, how |-> "none", n |-> 0,
   background |-> FALSE, run_background |-> FALSE,
   sigint |-> "none", sigtstp |-> "none", stdin |-> NULL, stdout |-> NULL]

\* A running child ends: a zombie holding its status and nothing of its
\* image, or nothing to wait for when the shell inherited SIGCHLD ignored.
Terminated(proc, how, n) ==
  IF sigchld_ignored
    THEN Collected(proc, "gone")
    ELSE [proc EXCEPT !.state = "zombie", !.how = how, !.n = n,
                      !.sigint = "none", !.sigtstp = "none",
                      !.stdin = NULL, !.stdout = NULL]

\* waitpid(pid, &status, WNOHANG): 0 still running, pid collected, -1 error.
WaitpidNohang(p) ==
  IF procs[p].state = "running" THEN 0
  ELSE IF procs[p].state = "zombie" THEN p
  ELSE -1

\* --------------------------------------------------------------- built-ins
TokExit == << "e", "x", "i", "t" >>
TokCd == << "c", "d" >>
TokStatus == << "s", "t", "a", "t", "u", "s" >>

\* Faulty variant: status is not among the built-ins.
get_builtin_type_WithoutStatus(command) ==
  IF command = NULL THEN "NOT_BUILTIN"
  ELSE IF command = TokExit THEN "BUILTIN_EXIT"
  ELSE IF command = TokCd THEN "BUILTIN_CD"
  ELSE "NOT_BUILTIN"

get_builtin_type(command) ==
  IF command = NULL THEN "NOT_BUILTIN"
  ELSE IF command = TokExit THEN "BUILTIN_EXIT"
  ELSE IF command = TokCd THEN "BUILTIN_CD"
  ELSE IF command = TokStatus THEN "BUILTIN_STATUS"
  ELSE "NOT_BUILTIN"

\* What the status built-in prints.
StatusLine ==
  IF last_signal # 0
    THEN << "terminated by signal", last_signal >>
    ELSE << "exit value", last_exit_status >>

\* ------------------------------------------------------------- job tracker
\* The entries in use before Init are all inactive and are not kept: both
\* loops over the registry read the active flag first and pass over them.
ActiveJobs == {i \in DOMAIN background_processes : background_processes[i].active}

\* Faulty variant: a collected job is left active.
PolledJob_KeepingCollected(job, result) ==
  IF result = -1 THEN [job EXCEPT !.active = FALSE] ELSE job

\* The registry entry of job i after its non-blocking check returned result.
PolledJob(job, result) ==
  IF result > 0 THEN [job EXCEPT !.active = FALSE]
  ELSE IF result = -1 THEN [job EXCEPT !.active = FALSE]
  ELSE job

\* Faulty variant: a job ended by a signal is not reported.
DoneReport_ExitOnly(p, result) ==
  IF result > 0 /\ procs[p].how = "exit"
    THEN << << "background pid is done: exit value", p, procs[p].n >> >>
    ELSE << >>

\* The line check_background_processes prints for a job whose check returned
\* result, << >> when it prints none.
DoneReport(p, result) ==
  IF result > 0
    THEN IF procs[p].how = "exit"
      THEN << << "background pid is done: exit value", p, procs[p].n >> >>
      ELSE IF procs[p].how = "signal"
        THEN << << "background pid is done: terminated by signal", p, procs[p].n >> >>
        ELSE << >>
    ELSE << >>

\* The jobs check_background_processes calls waitpid for.
PolledJobs == ActiveJobs

\* The lines of a sequence of per-job outputs, in registry order.
RECURSIVE Flatten(_, _)
Flatten(lines, i) ==
  IF i > Len(lines) THEN << >> ELSE lines[i] \o Flatten(lines, i + 1)

\* Faulty variant: the poll records the status of the last job it collects.
LastStatusAfterPoll_Recording ==
  LET done == {i \in ActiveJobs :
                 procs[background_processes[i].pid].state = "zombie"} IN
  IF done = {} THEN << last_exit_status, last_signal >>
  ELSE LET i == CHOOSE j \in done : \A k \in done : k <= j
           proc == procs[background_processes[i].pid] IN
       IF proc.how = "exit" THEN << proc.n, 0 >> ELSE << 0, proc.n >>

\* last_exit_status and last_signal when check_background_processes returns:
\* it assigns neither.
LastStatusAfterPoll == << last_exit_status, last_signal >>

check_background_processes ==
  LET polled == PolledJobs
      result == [i \in DOMAIN background_processes |->
        IF i \in polled THEN WaitpidNohang(background_processes[i].pid) ELSE 0]
      lines == [i \in DOMAIN background_processes |->
        IF i \in polled
          THEN DoneReport(background_processes[i].pid, result[i])
          ELSE << >>]
      reaped == {background_processes[i].pid : i \in {j \in polled : result[j] > 0}}
      reported == {background_processes[i].pid : i \in {j \in polled : lines[j] # << >>}}
  IN
  /\ background_processes' =
       [i \in DOMAIN background_processes |->
          IF i \in polled
            THEN PolledJob(background_processes[i], result[i])
            ELSE background_processes[i]]
  /\ procs' = [p \in Pids |->
       IF p \in reaped THEN Collected(procs[p], "reaped") ELSE procs[p]]
  /\ reports' = [p \in Pids |->
       IF p \in reported THEN reports[p] + 1 ELSE reports[p]]
  /\ stale_waits' = stale_waits + Cardinality({i \in polled :
       procs[background_processes[i].pid].state = "reaped"})
  /\ out' = Flatten(lines, 1)
  /\ last_exit_status' = LastStatusAfterPoll[1]
  /\ last_signal' = LastStatusAfterPoll[2]

\* ---------------------------------------------------------------- executor
\* Faulty variant: the shell stops after a command.
AfterCommand_Stop == "done"

\* Where main goes on after a line, whatever came of it (continue, or the
\* return of the dispatch and the end of the loop body): the top of the loop.
AfterCommand == "poll"

\* Faulty variant: the foreground-only flag is not consulted.
RunBackground_IgnoringMode(background, foreground_only) == background

\* run_background of execute_external_command.
RunBackground(background, foreground_only) == background /\ ~foreground_only

NewPid == Cardinality(Pids) + 1

\* fork() returned -1.
ForkFailed ==
  /\ status' = 1
  /\ out' = << << "fork failed" >> >>
  /\ pc' = AfterCommand
  /\ UNCHANGED << background_processes, bg_process_count, last_exit_status,
                  last_signal, procs, fg_pid, reports, sent, nforks >>

\* Faulty variant: a full registry gives the slot of an inactive job to the
\* new one.
TrackJob_ReusingSlot(p) ==
  LET free == {i \in DOMAIN background_processes :
                 ~background_processes[i].active} IN
  IF bg_process_count < MAX_BG_PROCESSES
    THEN /\ background_processes' =
              Append(background_processes, [pid |-> p, active |-> TRUE])
         /\ bg_process_count' = bg_process_count + 1
    ELSE IF free # {}
      THEN /\ background_processes' =
                [background_processes EXCEPT
                   ![CHOOSE i \in free : TRUE] = [pid |-> p, active |-> TRUE]]
           /\ bg_process_count' = bg_process_count
      ELSE UNCHANGED << background_processes, bg_process_count >>

\* The registry after the parent's "Add to background process tracking".
TrackJob(p) ==
  IF bg_process_count < MAX_BG_PROCESSES
    THEN /\ background_processes' =
              Append(background_processes, [pid |-> p, active |-> TRUE])
         /\ bg_process_count' = bg_process_count + 1
    ELSE UNCHANGED << background_processes, bg_process_count >>

\* Faulty variant: a background launch resets the last-status fields.
ParentBackground_ResettingStatus(p) ==
  /\ out' = << << "background pid is", p >> >>
  /\ TrackJob(p)
  /\ pc' = "poll"
  /\ status' = 0
  /\ last_exit_status' = 0
  /\ last_signal' = 0
  /\ UNCHANGED fg_pid

\* The parent's branch for a background child.
ParentBackground(p) ==
  /\ out' = << << "background pid is", p >> >>
  /\ TrackJob(p)
  /\ pc' = "poll"
  /\ UNCHANGED << status, last_exit_status, last_signal, fg_pid >>

\* The parent's branch for a foreground child, up to the blocking waitpid.
ParentForeground(p) ==
  /\ out' = << >>
  /\ pc' = "fgwait"
  /\ fg_pid' = p
  /\ UNCHANGED << status, last_exit_status, last_signal, background_processes,
                  bg_process_count >>

\* fork() succeeded: execute_external_command up to the parent's return or wait.
Forked(cmd, foreground_only) ==
  LET p == NewPid
      run_background == RunBackground(cmd.background, foreground_only) IN
  /\ nforks < nproc
  /\ nforks' = nforks + 1
  /\ procs' = [q \in Pids \cup {p} |->
       IF q = p THEN NewChild(cmd, run_background) ELSE procs[q]]
  /\ reports' = [q \in Pids \cup {p} |-> IF q = p THEN 0 ELSE reports[q]]
  /\ sent' = [q \in Pids \cup {p} |-> IF q = p THEN << >> ELSE sent[q]]
  /\ IF run_background THEN ParentBackground(p) ELSE ParentForeground(p)

execute_external_command(cmd, foreground_only) ==
  \/ ForkFailed
  \/ Forked(cmd, foreground_only)

\* Faulty variant: a normal exit does not clear last_signal.
RecordStatus_KeepingSignal(how, n) ==
  IF how = "exit"
    THEN /\ status' = n
         /\ last_exit_status' = n
         /\ last_signal' = last_signal
         /\ out' = << >>
    ELSE /\ out' = << << "terminated by signal", n >> >>
         /\ last_signal' = n
         /\ last_exit_status' = 0
         /\ status' = n

\* The last-status fields after waitpid handed back a status (how, n).
RecordStatus(how, n) ==
  IF how = "exit"
    THEN /\ status' = n
         /\ last_exit_status' = n
         /\ last_signal' = 0
         /\ out' = << >>
    ELSE /\ out' = << << "terminated by signal", n >> >>
         /\ last_signal' = n
         /\ last_exit_status' = 0
         /\ status' = n

\* Faulty variant: the wait returns for whichever child has ended.
ForegroundDone_AnyChild ==
  /\ pc = "fgwait"
  /\ \E p \in Pids :
       /\ procs[p].state = "zombie"
       /\ RecordStatus(procs[p].how, procs[p].n)
       /\ last_fg' = [how |-> procs[p].how, n |-> procs[p].n,
                      background |-> procs[p].background]
       /\ procs' = [procs EXCEPT ![p] = Collected(procs[p], "reaped")]
  /\ fg_pid' = 0
  /\ pc' = AfterCommand
  /\ UNCHANGED << background_processes, bg_process_count, foreground_only_mode,
                  cwd, home, sigchld_ignored, ci, exit_code, reports, sent,
                  stale_waits, tstp_count, notice, nforks, builtin_type >>
  /\ UNCHANGED fixed

\* The blocking waitpid(child_pid, &status, 0) returns the child's status.
ForegroundDone ==
  /\ pc = "fgwait"
  /\ procs[fg_pid].state = "zombie"
  /\ RecordStatus(procs[fg_pid].how, procs[fg_pid].n)
  /\ last_fg' = [how |-> procs[fg_pid].how, n |-> procs[fg_pid].n,
                  background |-> procs[fg_pid].background]
  /\ procs' = [procs EXCEPT ![fg_pid] = Collected(procs[fg_pid], "reaped")]
  /\ fg_pid' = 0
  /\ pc' = AfterCommand
  /\ UNCHANGED << background_processes, bg_process_count, foreground_only_mode,
                  cwd, home, sigchld_ignored, ci, exit_code, reports, sent,
                  stale_waits, tstp_count, notice, nforks, builtin_type >>
  /\ UNCHANGED fixed

\* The blocking waitpid returns -1: the child ended and left nothing to wait for.
ForegroundWaitFailed ==
  /\ pc = "fgwait"
  /\ procs[fg_pid].state = "gone"
  /\ status' = 1
  /\ out' = << << "waitpid failed" >> >>
  /\ fg_pid' = 0
  /\ pc' = AfterCommand
  /\ UNCHANGED << background_processes, bg_process_count, foreground_only_mode,
                  last_exit_status, last_signal, cwd, home, procs,
                  sigchld_ignored, ci, exit_code, reports, sent, stale_waits,
                  tstp_count, notice, nforks, builtin_type, last_fg >>
  /\ UNCHANGED fixed

\* ---------------------------------------------------------------- main loop
\* Faulty variant: the poll also runs while main waits for a foreground child.
PollPoints_AlsoWhileWaiting == {"poll", "fgwait"}

\* Where main calls check_background_processes: the top of the while loop.
PollPoints == {"poll"}

\* The top of the while loop: the poll, then the prompt. builtin_type, a
\* local of the loop body, is out of scope between two iterations.
Poll ==
  /\ pc \in PollPoints
  /\ check_background_processes
  /\ pc' = IF pc = "poll" THEN "prompt" ELSE pc
  /\ builtin_type' = IF pc = "poll" THEN "NONE" ELSE builtin_type
  /\ UNCHANGED << bg_process_count, foreground_only_mode, status, cwd, home,
                  sigchld_ignored, fg_pid, ci, exit_code, sent, tstp_count,
                  notice, nforks, last_fg >>
  /\ UNCHANGED fixed

\* fgets returned NULL: leave the loop for the cleanup.
ReadEOF ==
  /\ pc = "prompt"
  /\ out' = << << "EOF detected - exiting shell" >> >>
  /\ builtin_type' = "NONE"
  /\ pc' = "cleanup"
  /\ ci' = 1
  /\ UNCHANGED << background_processes, bg_process_count, foreground_only_mode,
                  last_exit_status, last_signal, status, cwd, home, procs,
                  sigchld_ignored, fg_pid, exit_code, reports, sent,
                  stale_waits, tstp_count, notice, nforks, last_fg >>
  /\ UNCHANGED fixed

\* Line k is one that parse_command answers with 1 or -1: continue.
ReadNothingOf(k) ==
  /\ pc = "prompt"
  /\ Parsed[k].result # 0
  /\ out' = Notice[k]
  /\ builtin_type' = "NONE"
  /\ pc' = AfterCommand
  /\ UNCHANGED << background_processes, bg_process_count, foreground_only_mode,
                  last_exit_status, last_signal, status, cwd, home, procs,
                  sigchld_ignored, fg_pid, ci, exit_code, reports, sent,
                  stale_waits, tstp_count, notice, nforks, last_fg >>
  /\ UNCHANGED fixed

ReadNothing == \E k \in script : ReadNothingOf(k)

\* Line k parses, and get_builtin_type classifies its command as builtin.
ParsedAs(k, builtin) ==
  /\ Parsed[k].result = 0
  /\ get_builtin_type(Parsed[k].cmd.command) = builtin

\* exit: execute_builtin up to the call of cleanup_all_background_processes.
BuiltinExitOf(k) ==
  /\ pc = "prompt"
  /\ ParsedAs(k, "BUILTIN_EXIT")
  /\ builtin_type' = "BUILTIN_EXIT"
  /\ out' = Notice[k] \o << << "Exiting shell..." >> >>
  /\ pc' = "cleanup"
  /\ ci' = 1
  /\ UNCHANGED << background_processes, bg_process_count, foreground_only_mode,
                  last_exit_status, last_signal, status, cwd, home, procs,
                  sigchld_ignored, fg_pid, exit_code, reports, sent,
                  stale_waits, tstp_count, notice, nforks, last_fg >>
  /\ UNCHANGED fixed

BuiltinExit == \E k \in script : BuiltinExitOf(k)

\* Faulty variant: the number of arguments is not looked at.
CdError_NoCount(command) ==
  IF Len(command.args) - 1 = 0 /\ home = NULL
    THEN << "cd: HOME environment variable not set" >>
    ELSE << >>

\* What cd reports before it calls chdir, << >> when it reaches the call.
CdError(command) ==
  LET arg_count == Len(command.args) - 1 IN
  IF arg_count = 0 /\ home = NULL
    THEN << "cd: HOME environment variable not set" >>
    ELSE IF arg_count > 1
      THEN << "cd: too many arguments" >>
      ELSE << >>

\* target_dir of cd.
CdTarget(command) ==
  IF Len(command.args) - 1 = 0 THEN home ELSE command.args[2]

\* cd: the target, then chdir, which the system may refuse.
BuiltinCdOf(k) ==
  /\ pc = "prompt"
  /\ ParsedAs(k, "BUILTIN_CD")
  /\ \E chdir_ok \in BOOLEAN :
       LET command == Parsed[k].cmd IN
       IF CdError(command) # << >>
         THEN /\ out' = Notice[k] \o << CdError(command) >>
              /\ cwd' = cwd
         ELSE IF ~chdir_ok
           THEN /\ out' = Notice[k] \o << << "cd: error" >> >>
                /\ cwd' = cwd
           ELSE /\ out' = Notice[k]
                            \o << << "Changed directory to", CdTarget(command) >> >>
                /\ cwd' = CdTarget(command)
  /\ builtin_type' = "BUILTIN_CD"
  /\ pc' = AfterCommand
  /\ UNCHANGED << background_processes, bg_process_count, foreground_only_mode,
                  last_exit_status, last_signal, status, home, procs,
                  sigchld_ignored, fg_pid, ci, exit_code, reports, sent,
                  stale_waits, tstp_count, notice, nforks, last_fg >>
  /\ UNCHANGED fixed

BuiltinCd == \E k \in script : BuiltinCdOf(k)

\* status: print the last-status fields.
BuiltinStatusOf(k) ==
  /\ pc = "prompt"
  /\ ParsedAs(k, "BUILTIN_STATUS")
  /\ builtin_type' = "BUILTIN_STATUS"
  /\ out' = Notice[k] \o << StatusLine >>
  /\ pc' = AfterCommand
  /\ UNCHANGED << background_processes, bg_process_count, foreground_only_mode,
                  last_exit_status, last_signal, status, cwd, home, procs,
                  sigchld_ignored, fg_pid, ci, exit_code, reports, sent,
                  stale_waits, tstp_count, notice, nforks, last_fg >>
  /\ UNCHANGED fixed

BuiltinStatus == \E k \in script : BuiltinStatusOf(k)

\* An external command: main passes foreground_only_mode by value. What the
\* executor writes follows what main wrote before the dispatch; no over-long
\* line of Lines names an external command, so that is nothing.
ExternalOf(k) ==
  /\ pc = "prompt"
  /\ ParsedAs(k, "NOT_BUILTIN")
  /\ Notice[k] = << >>
  /\ execute_external_command(Parsed[k].cmd, foreground_only_mode)
  /\ builtin_type' = "NOT_BUILTIN"
  /\ UNCHANGED << foreground_only_mode, cwd, home, sigchld_ignored, ci,
                  exit_code, stale_waits, tstp_count, notice, last_fg >>
  /\ UNCHANGED fixed

External == \E k \in script : ExternalOf(k)

\* ------------------------------------------------------------- exit cleanup
\* kill(pid, sig) as the kernel acts on it at once: SIGKILL ends a running
\* child; SIGTERM is left to the child (ChildKilled).
Kill(proc, sig) ==
  IF sig = SIGKILL /\ proc.state = "running"
    THEN Terminated(proc, "signal", SIGKILL)
    ELSE proc

\* The signals cleanup_all_background_processes sends an active job: the
\* first before the usleep, the second after it.
GracefulSignal == SIGTERM
ForceSignal == SIGKILL

\* Faulty variant: the loop does not look at the active flag.
CleanupTargets_All(i) == TRUE

\* Whether the cleanup loop signals registry entry i.
CleanupTargets(i) == background_processes[i].active

\* The entry the loop signals next from entry i on: it passes over the
\* entries it does not signal; one past the last entry when it signals no more.
NextTarget(i) ==
  LET rest == {j \in i..Len(background_processes) : CleanupTargets(j)} IN
  IF rest = {} THEN Len(background_processes) + 1
  ELSE CHOOSE j \in rest : \A k \in rest : j <= k

\* The loop up to the usleep of the next entry it signals.
CleanupTerm ==
  /\ pc = "cleanup"
  /\ NextTarget(ci) <= Len(background_processes)
  /\ LET p == background_processes[NextTarget(ci)].pid IN
       /\ out' = << << "Terminating background process", p >> >>
       /\ sent' = [sent EXCEPT ![p] = Append(@, GracefulSignal)]
       /\ procs' = [procs EXCEPT ![p] = Kill(@, GracefulSignal)]
  /\ pc' = "grace"
  /\ ci' = NextTarget(ci)
  /\ UNCHANGED << background_processes, bg_process_count, foreground_only_mode,
                  last_exit_status, last_signal, status, cwd, home,
                  sigchld_ignored, fg_pid, exit_code, reports, stale_waits,
                  tstp_count, notice, nforks, builtin_type, last_fg >>
  /\ UNCHANGED fixed

\* The rest of the iteration after the usleep.
CleanupKill ==
  /\ pc = "grace"
  /\ LET p == background_processes[ci].pid IN
       /\ sent' = [sent EXCEPT ![p] = Append(@, ForceSignal)]
       /\ procs' = [procs EXCEPT ![p] = Kill(@, ForceSignal)]
  /\ ci' = ci + 1
  /\ pc' = "cleanup"
  /\ UNCHANGED << background_processes, bg_process_count, foreground_only_mode,
                  last_exit_status, last_signal, status, cwd, home,
                  sigchld_ignored, fg_pid, exit_code, out, reports,
                  stale_waits, tstp_count, notice, nforks, builtin_type,
                  last_fg >>
  /\ UNCHANGED fixed

\* The loop signals no more: exit(0) of the built-in, or return 0 of main.
Terminate ==
  /\ pc = "cleanup"
  /\ NextTarget(ci) > Len(background_processes)
  /\ ci' = Len(background_processes) + 1
  /\ exit_code' = 0
  /\ pc' = "done"
  /\ UNCHANGED << background_processes, bg_process_count, foreground_only_mode,
                  last_exit_status, last_signal, status, cwd, home, procs,
                  sigchld_ignored, fg_pid, out, reports, sent, stale_waits,
                  tstp_count, notice, nforks, builtin_type, last_fg >>
  /\ UNCHANGED fixed

\* ------------------------------------------------------------------ signals
\* Faulty variant: the handler only ever enters the mode.
Toggled_EnterOnly(mode) == TRUE

\* foreground_only_mode after the handler ran.
Toggled(mode) == ~mode

\* Faulty variant: the handler also resets the last-status fields.
sigtstp_handler_ClearingStatus ==
  /\ pc # "done"
  /\ tstp_count' = (tstp_count + 1) % 2
  /\ foreground_only_mode' = Toggled(foreground_only_mode)
  /\ notice' = IF foreground_only_mode
       THEN "Exiting foreground-only mode"
       ELSE "Entering foreground-only mode (& is now ignored)"
  /\ last_exit_status' = 0
  /\ last_signal' = 0
  /\ UNCHANGED << pc, background_processes, bg_process_count, status, cwd,
                  home, procs, sigchld_ignored, fg_pid, ci, exit_code, out,
                  reports, sent, stale_waits, nforks, builtin_type, last_fg >>
  /\ UNCHANGED fixed

\* SIGTSTP is delivered to the shell, wherever main is.
sigtstp_handler ==
  /\ pc # "done"
  /\ tstp_count' = (tstp_count + 1) % 2
  /\ foreground_only_mode' = Toggled(foreground_only_mode)
  /\ notice' = IF foreground_only_mode
       THEN "Exiting foreground-only mode"
       ELSE "Entering foreground-only mode (& is now ignored)"
  /\ UNCHANGED << pc, background_processes, bg_process_count, last_exit_status,
                  last_signal, status, cwd, home, procs, sigchld_ignored,
                  fg_pid, ci, exit_code, out, reports, sent, stale_waits,
                  nforks, builtin_type, last_fg >>
  /\ UNCHANGED fixed

\* ----------------------------------------------------------------- children
\* Faulty variant: the child reports success when it could not start.
ChildFailure_ExitZero(proc) == Terminated(proc, "exit", 0)

\* exit(1) of the child after setup_io_redirection returned -1 or execvp
\* returned.
ChildFailure(proc) == Terminated(proc, "exit", 1)

\* A child cannot open or bind a stream, or cannot execute its program.
ChildFails ==
  /\ pc # "done"
  /\ \E p \in Pids :
       /\ procs[p].state = "running"
       /\ procs' = [procs EXCEPT ![p] = ChildFailure(@)]
  /\ UNCHANGED << pc, background_processes, bg_process_count,
                  foreground_only_mode, last_exit_status, last_signal, status,
                  cwd, home, sigchld_ignored, fg_pid, ci, exit_code, out,
                  reports, sent, stale_waits, tstp_count, notice, nforks,
                  builtin_type, last_fg >>
  /\ UNCHANGED fixed

\* A running child exits with a code: its program ended.
ChildExits ==
  /\ pc # "done"
  /\ \E p \in Pids : \E e \in ExitCodes :
       /\ procs[p].state = "running"
       /\ procs' = [procs EXCEPT ![p] = Terminated(@, "exit", e)]
  /\ UNCHANGED << pc, background_processes, bg_process_count,
                  foreground_only_mode, last_exit_status, last_signal, status,
                  cwd, home, sigchld_ignored, fg_pid, ci, exit_code, out,
                  reports, sent, stale_waits, tstp_count, notice, nforks,
                  builtin_type, last_fg >>
  /\ UNCHANGED fixed

\* A running child is ended by a signal, whoever sent it.
ChildKilled ==
  /\ pc # "done"
  /\ \E p \in Pids : \E sig \in TermSignals :
       /\ procs[p].state = "running"
       /\ procs' = [procs EXCEPT ![p] = Terminated(@, "signal", sig)]
  /\ UNCHANGED << pc, background_processes, bg_process_count,
                  foreground_only_mode, last_exit_status, last_signal, status,
                  cwd, home, sigchld_ignored, fg_pid, ci, exit_code, out,
                  reports, sent, stale_waits, tstp_count, notice, nforks,
                  builtin_type, last_fg >>
  /\ UNCHANGED fixed

\* SIGINT from the terminal goes to the shell and to every child, which are
\* all in the shell's process group: it ends the running children that have
\* the default disposition, and the shell if the shell has it.
Interrupted(proc) ==
  IF proc.state = "running" /\ proc.sigint = "SIG_DFL"
    THEN Terminated(proc, "signal", SIGINT)
    ELSE proc

Interrupt ==
  /\ pc # "done"
  /\ \E p \in Pids : Interrupted(procs[p]) # procs[p]
  /\ procs' = [p \in Pids |-> Interrupted(procs[p])]
  /\ pc' = IF sigint_disposition = "SIG_IGN" THEN pc ELSE "done"
  /\ UNCHANGED << background_processes, bg_process_count,
                  foreground_only_mode, last_exit_status, last_signal, status,
                  cwd, home, sigchld_ignored, fg_pid, ci, exit_code, out,
                  reports, sent, stale_waits, tstp_count, notice, nforks,
                  builtin_type, last_fg >>
  /\ UNCHANGED fixed

\* ------------------------------------------------------------ specification
\* The shell's own state after setup_signal_handlers, before the first poll.
InitShell ==
  /\ pc = "poll"
  /\ foreground_only_mode = FALSE
  /\ last_exit_status = 0
  /\ last_signal = 0
  /\ status = 0
  /\ cwd = << "/" >>
  /\ sigchld_ignored \in BOOLEAN
  /\ fg_pid = 0
  /\ ci = 0
  /\ exit_code = -1
  /\ out = << >>
  /\ stale_waits = 0
  /\ tstp_count = 0
  /\ notice = ""
  /\ nforks = 0
  /\ builtin_type = "NONE"
  /\ last_fg = [how |-> "exit", n |-> 0, background |-> FALSE]
  /\ sigint_disposition = "SIG_IGN"
  /\ parse_line = NULL
  /\ parse_result = 0
  /\ parse_cmd = init_command
  /\ tk_count = 0
  /\ tk_tokens = << >>

\* A fresh session: the registry is empty.
Init ==
  /\ InitShell
  /\ home \in {NULL, << "h" >>}
  /\ script = ScriptSession
  /\ nproc = MaxProcs
  /\ background_processes = << >>
  /\ bg_process_count = 0
  /\ procs = << >>
  /\ reports = << >>
  /\ sent = << >>

\* A session that has launched MAX_BG_PROCESSES - 1 background jobs, all of
\* them finished, collected and reported by earlier polls.
InitNearFull ==
  /\ InitShell
  /\ home \in {NULL, << "h" >>}
  /\ script = ScriptSession
  /\ nproc = MaxProcs
  /\ background_processes = << >>
  /\ bg_process_count = MAX_BG_PROCESSES - 1
  /\ procs = << >>
  /\ reports = << >>
  /\ sent = << >>

Next ==
  \/ Poll
  \/ ReadEOF
  \/ ReadNothing
  \/ BuiltinExit
  \/ BuiltinCd
  \/ BuiltinStatus
  \/ External
  \/ ForegroundDone
  \/ ForegroundWaitFailed
  \/ CleanupTerm
  \/ CleanupKill
  \/ Terminate
  \/ sigtstp_handler
  \/ ChildExits
  \/ ChildKilled
  \/ ChildFails
  \/ Interrupt

Spec == Init /\ [][Next]_vars

SpecNearFull == InitNearFull /\ [][Next]_vars

\* A fresh session without HOME that is fed commands with redirections.
InitRedirect ==
  /\ InitShell
  /\ home = NULL
  /\ script = ScriptRedirect
  /\ nproc = MaxProcs
  /\ background_processes = << >>
  /\ bg_process_count = 0
  /\ procs = << >>
  /\ reports = << >>
  /\ sent = << >>

SpecRedirect == InitRedirect /\ [][Next]_vars

\* A fresh session under a lower limit on its children.
InitLines ==
  /\ InitShell
  /\ home \in {NULL, << "h" >>}
  /\ script = ScriptSession
  /\ nproc = MaxLineProcs
  /\ background_processes = << >>
  /\ bg_process_count = 0
  /\ procs = << >>
  /\ reports = << >>
  /\ sent = << >>

SpecLines == InitLines /\ [][Next]_vars

\* -------------------------------------------------- parse_command by itself
\* Lines of up to MaxLen characters as fgets returns them: a newline ends
\* the line, so it is the last character or, at end of input, absent.
ParseAlphabet == {"a", "<", ">", "&", " ", "\n"}
ParseLines ==
  UNION {{l \in [1..n -> ParseAlphabet] :
            \A i \in 1..(n - 1) : l[i] # "\n"} : n \in 1..MaxLen}

\* The call parse_command(line, &cmd) is about to be made on some line.
InitParse ==
  /\ pc = "parse"
  /\ parse_line \in ParseLines
  /\ parse_result = 0
  /\ parse_cmd = init_command
  /\ tk_count = 0
  /\ tk_tokens = << >>
  /\ script = {}
  /\ nproc = 0
  /\ sigint_disposition = "SIG_IGN"
  /\ foreground_only_mode = FALSE
  /\ last_exit_status = 0
  /\ last_signal = 0
  /\ status = 0
  /\ cwd = << "/" >>
  /\ home = NULL
  /\ sigchld_ignored = FALSE
  /\ fg_pid = 0
  /\ ci = 0
  /\ exit_code = -1
  /\ out = << >>
  /\ stale_waits = 0
  /\ tstp_count = 0
  /\ notice = ""
  /\ nforks = 0
  /\ builtin_type = "NONE"
  /\ last_fg = [how |-> "exit", n |-> 0, background |-> FALSE]
  /\ background_processes = << >>
  /\ bg_process_count = 0
  /\ procs = << >>
  /\ reports = << >>
  /\ sent = << >>

\* The call returns.
ParseLine ==
  /\ pc = "parse"
  /\ parse_result' = parse_command(parse_line).result
  /\ parse_cmd' = parse_command(parse_line).cmd
  /\ out' = Reported(parse_command(parse_line).err)
  /\ pc' = "parsed"
  /\ UNCHANGED << parse_line, script, nproc, sigint_disposition, tk_count,
                  tk_tokens,
                  background_processes, bg_process_count, foreground_only_mode,
                  last_exit_status, last_signal, status, cwd, home, procs,
                  sigchld_ignored, fg_pid, ci, exit_code, reports, sent,
                  stale_waits, tstp_count, notice, nforks, builtin_type,
                  last_fg >>

NextParse == ParseLine

SpecParse == InitParse /\ [][NextParse]_vars

\* ------------------------------------------------- tokenize_line by itself
\* count one-character tokens a blank apart, then blanks up to len characters.
TokenLine(count, len) ==
  [i \in 1..len |-> IF i <= 2 * count - 1 /\ i % 2 = 1 THEN "a" ELSE " "]

\* The short lines, and lines about the two limits.
TokenizeLines ==
  LET counts == {1} \cup ((MAX_ARGS - Margin)..(MAX_ARGS + Margin))
      lengths == (MAX_LINE_LENGTH - Margin)..(MAX_LINE_LENGTH + Margin)
  IN ParseLines \cup
     UNION {{TokenLine(c, len) : len \in lengths \cup {2 * c - 1}} :
              c \in counts}

\* The call tokenize_line(line, tokens, MAX_ARGS) is about to be made.
InitTokenize ==
  /\ pc = "tokenize"
  /\ parse_line \in TokenizeLines
  /\ parse_result = 0
  /\ parse_cmd = init_command
  /\ tk_count = 0
  /\ tk_tokens = << >>
  /\ script = {}
  /\ nproc = 0
  /\ sigint_disposition = "SIG_IGN"
  /\ foreground_only_mode = FALSE
  /\ last_exit_status = 0
  /\ last_signal = 0
  /\ status = 0
  /\ cwd = << "/" >>
  /\ home = NULL
  /\ sigchld_ignored = FALSE
  /\ fg_pid = 0
  /\ ci = 0
  /\ exit_code = -1
  /\ out = << >>
  /\ stale_waits = 0
  /\ tstp_count = 0
  /\ notice = ""
  /\ nforks = 0
  /\ builtin_type = "NONE"
  /\ last_fg = [how |-> "exit", n |-> 0, background |-> FALSE]
  /\ background_processes = << >>
  /\ bg_process_count = 0
  /\ procs = << >>
  /\ reports = << >>
  /\ sent = << >>

\* The call returns.
TokenizeLine ==
  /\ pc = "tokenize"
  /\ tk_count' = tokenize_line(parse_line, MAX_ARGS).count
  /\ tk_tokens' = tokenize_line(parse_line, MAX_ARGS).tokens
  /\ out' = Reported(tokenize_line(parse_line, MAX_ARGS).err)
  /\ pc' = "tokenized"
  /\ UNCHANGED << parse_line, parse_result, parse_cmd, script, nproc,
                  sigint_disposition, background_processes, bg_process_count,
                  foreground_only_mode, last_exit_status, last_signal, status,
                  cwd, home, procs, sigchld_ignored, fg_pid, ci, exit_code,
                  reports, sent, stale_waits, tstp_count, notice, nforks,
                  builtin_type, last_fg >>

NextTokenize == TokenizeLine

SpecTokenize == InitTokenize /\ [][NextTokenize]_vars

\* ------------------------------------------------------------------ claims
\* Children forked by the step.
NewPids == (DOMAIN procs') \ (DOMAIN procs)

\* p is the pid of a registry entry, of an active one.
InRegistry(p) ==
  \E i \in DOMAIN background_processes : background_processes[i].pid = p
IsActiveJob(p) ==
  \E i \in DOMAIN background_processes :
    background_processes[i] = [pid |-> p, active |-> TRUE]

\* What status is to print after a termination (how, n).
StatusOf(how, n) ==
  IF how = "signal" THEN << "terminated by signal", n >> ELSE << "exit value", n >>

\* The completion line of a background job that ended with (how, n).
DoneLineOf(p, how, n) ==
  IF how = "signal"
    THEN << "background pid is done: terminated by signal", p, n >>
    ELSE << "background pid is done: exit value", p, n >>

IsDoneLine(line) ==
  line[1] \in {"background pid is done: terminated by signal",
               "background pid is done: exit value"}

\* A step of the poll at the top of the cycle.
PollStep == pc = "poll" /\ pc' = "prompt"

\* C1: an external command is run in the background (the parent reports the
\* pid and goes back to the top of the loop without waiting) exactly when its
\* background flag is set and foreground_only_mode is false at the dispatch;
\* otherwise the parent blocks on it, it is no registry entry, its status goes
\* to the last-status fields when it ends, and a SIGTSTP that toggles the mode
\* while it is in flight changes neither the wait nor the registry.
C1_Step ==
  /\ \A p \in NewPids :
       IF procs'[p].background /\ ~foreground_only_mode
         THEN /\ pc' = "poll"
              /\ fg_pid' = 0
              /\ out' = << << "background pid is", p >> >>
         ELSE /\ pc' = "fgwait"
              /\ fg_pid' = p
              /\ ~InRegistry(p)'
  /\ (pc = "fgwait" /\ foreground_only_mode' # foreground_only_mode)
       => /\ pc' = "fgwait"
          /\ fg_pid' = fg_pid
          /\ background_processes' = background_processes
  /\ (pc = "fgwait" /\ pc' # "fgwait")
       => /\ pc' = "poll"
          /\ procs[fg_pid].state \in {"zombie", "gone"}
          /\ ~InRegistry(fg_pid)
          /\ procs[fg_pid].state = "zombie"
               => StatusLine' = StatusOf(procs[fg_pid].how, procs[fg_pid].n)
C1_BackgroundDecision == [][C1_Step]_vars

\* A trailing-& command dispatched in foreground-only mode is being waited
\* for, and the mode has been toggled off since.
C1_Witness ==
  /\ pc = "fgwait"
  /\ procs[fg_pid].background
  /\ ~procs[fg_pid].run_background
  /\ ~foreground_only_mode

\* C2 as claimed: every background child that has not been collected is an
\* active job.
C2_EveryBackgroundChildTracked ==
  \A p \in Pids :
    (procs[p].run_background /\ procs[p].state \in {"running", "zombie"})
      => IsActiveJob(p)

\* C2 amended: a background child launched while bg_process_count is below
\* MAX_BG_PROCESSES is an active job from its launch until a poll collects its
\* status, inactive from then on, never waited for again, and a poll leaves no
\* registered job a zombie.
C2_Inv ==
  /\ \A i \in DOMAIN background_processes :
       LET job == background_processes[i] IN
       /\ procs[job.pid].state \in {"running", "zombie"} => job.active
       /\ procs[job.pid].state = "reaped" => ~job.active
  /\ stale_waits = 0
C2_Step ==
  /\ \A p \in NewPids :
       (procs'[p].run_background /\ bg_process_count < MAX_BG_PROCESSES)
         => IsActiveJob(p)'
  /\ PollStep =>
       \A i \in DOMAIN background_processes :
         LET p == background_processes[i].pid IN
         procs[p].state = "zombie"
           => procs'[p].state = "reaped" /\ ~background_processes'[i].active
C2_TrackedJobCollectedOnce == [](C2_Inv) /\ [][C2_Step]_vars

\* The registry is full, its last job has been collected by a poll, and a
\* later background child runs untracked.
C2_Witness ==
  /\ bg_process_count = MAX_BG_PROCESSES
  /\ \E i \in DOMAIN background_processes :
       /\ ~background_processes[i].active
       /\ procs[background_processes[i].pid].state = "reaped"
  /\ \E p \in Pids : procs[p].run_background /\ ~InRegistry(p)

\* C3: a poll reports each active job whose process has terminated once, with
\* its exit value or signal, and marks it inactive; it marks a job whose check
\* errors inactive without a report, leaves a running job active without a
\* report, and reports nothing for an inactive job; no job is reported twice.
C3_Step ==
  PollStep =>
    \A i \in DOMAIN background_processes :
      LET job == background_processes[i]
          p == job.pid IN
      IF job.active /\ procs[p].state = "zombie"
        THEN /\ reports'[p] = reports[p] + 1
             /\ ~background_processes'[i].active
             /\ Len(SelectSeq(out', LAMBDA line : line[2] = p)) = 1
             /\ \E k \in DOMAIN out' :
                  out'[k] = DoneLineOf(p, procs[p].how, procs[p].n)
        ELSE /\ reports'[p] = reports[p]
             /\ \A k \in DOMAIN out' : out'[k][2] # p
             /\ background_processes'[i].active
                  = (job.active /\ procs[p].state = "running")
C3_ReportedOnce ==
  [](\A p \in Pids : reports[p] <= 1) /\ [][C3_Step]_vars

\* A poll has just reported one job as done with exit value 1 while another
\* job, still running, stays active.
C3_Witness ==
  /\ pc = "prompt"
  /\ \E i, j \in DOMAIN background_processes :
       /\ ~background_processes[i].active
       /\ reports[background_processes[i].pid] = 1
       /\ out = << DoneLineOf(background_processes[i].pid, "exit", 1) >>
       /\ background_processes[j].active
       /\ procs[background_processes[j].pid].state = "running"

\* C4: what status prints is the outcome of the foreground child collected
\* last ("exit value 0" before any), the line printed by a status command is
\* that, and last_exit_status and last_signal are never both non-zero.
C4_StatusReportsLastForeground ==
  /\ StatusLine = StatusOf(last_fg.how, last_fg.n)
  /\ (pc = "poll" /\ builtin_type = "BUILTIN_STATUS")
       => out = << StatusOf(last_fg.how, last_fg.n) >>
  /\ ~(last_exit_status # 0 /\ last_signal # 0)

\* status has just printed "terminated by signal 9" after two foreground
\* commands.
C4_Witness ==
  /\ pc = "poll"
  /\ builtin_type = "BUILTIN_STATUS"
  /\ out = << << "terminated by signal", SIGKILL >> >>
  /\ nforks = 2
  /\ \A p \in Pids : procs[p].state = "reaped"

\* C5 as claimed: after a poll collects a background job, status reports
\* that job's outcome.
C5_PollUpdatesStatus ==
  [][PollStep =>
       \A i \in ActiveJobs :
         LET p == background_processes[i].pid IN
         procs[p].state = "zombie"
           => StatusLine' = StatusOf(procs[p].how, procs[p].n)]_vars

\* C5 amended: a poll changes neither last_exit_status nor last_signal, so
\* after it status reports what it reported before it.
C5_PollKeepsStatus ==
  [][PollStep => /\ last_exit_status' = last_exit_status
                 /\ last_signal' = last_signal
                 /\ StatusLine' = StatusLine]_vars

\* A poll has just reported a job killed by a signal, and status still
\* reports an exit value.
C5_Witness ==
  /\ pc = "prompt"
  /\ \E k \in DOMAIN out :
       out[k][1] = "background pid is done: terminated by signal"
  /\ last_signal = 0

\* What a background launch does besides the registry: no wait, the pid
\* reported, the last-status fields and the line of status as before.
C6_Launch(p) ==
  /\ pc' = "poll"
  /\ fg_pid' = 0
  /\ out' = << << "background pid is", p >> >>
  /\ last_exit_status' = last_exit_status
  /\ last_signal' = last_signal
  /\ StatusLine' = StatusLine

\* C6 as claimed: every background launch also records the pid as an active
\* job.
C6_LaunchAlwaysRecorded ==
  [][\A p \in NewPids :
       procs'[p].run_background => C6_Launch(p) /\ IsActiveJob(p)']_vars

\* C6 amended: the pid is recorded as an active job when bg_process_count is
\* below MAX_BG_PROCESSES, and the registry is left as it is otherwise.
C6_LaunchRecordedIfRoom ==
  [][\A p \in NewPids :
       procs'[p].run_background =>
         /\ C6_Launch(p)
         /\ IF bg_process_count < MAX_BG_PROCESSES
              THEN /\ IsActiveJob(p)'
                   /\ bg_process_count' = bg_process_count + 1
              ELSE /\ background_processes' = background_processes
                   /\ bg_process_count' = bg_process_count]_vars

\* A background launch right after a foreground child was killed: the job is
\* recorded and status still reports the signal.
C6_Witness ==
  /\ pc = "poll"
  /\ last_signal = SIGKILL
  /\ \E p \in Pids :
       /\ out = << << "background pid is", p >> >>
       /\ IsActiveJob(p)
       /\ procs[p].run_background

\* C7: after a failed fork or a failed foreground wait, status reports
\* "exit value 1".
C7_FailureSetsSentinel ==
  [][(/\ pc \in {"prompt", "fgwait"}
      /\ pc' = "poll"
      /\ out' \in {<< << "fork failed" >> >>, << << "waitpid failed" >> >>})
       => StatusLine' = << "exit value", 1 >>]_vars

\* C8: the shell terminates only out of the cleanup, which starts only at the
\* exit built-in or at end of input; when it has terminated, its exit code is
\* 0, every active registry entry was sent SIGTERM and then SIGKILL and runs
\* no more, and no inactive entry was sent a signal; before the cleanup no
\* signal is sent.
C8_Inv ==
  /\ pc = "done" =>
       /\ exit_code = 0
       /\ \A i \in DOMAIN background_processes :
            LET job == background_processes[i] IN
            IF job.active
              THEN /\ sent[job.pid] = << SIGTERM, SIGKILL >>
                   /\ procs[job.pid].state # "running"
              ELSE sent[job.pid] = << >>
  /\ pc \notin {"cleanup", "grace", "done"} =>
       /\ exit_code = -1
       /\ \A p \in Pids : sent[p] = << >>
C8_Step ==
  /\ (pc' = "done" /\ pc # "done") => pc = "cleanup"
  /\ (pc' = "cleanup" /\ pc \notin {"cleanup", "grace"}) =>
       /\ pc = "prompt"
       /\ \/ builtin_type' = "BUILTIN_EXIT"
          \/ out' = << << "EOF detected - exiting shell" >> >>
  /\ pc \in {"cleanup", "grace"} =>
       background_processes' = background_processes
C8_CleanupBeforeExit == [](C8_Inv) /\ [][C8_Step]_vars

\* The shell has terminated with two active jobs, both signalled.
C8_Witness ==
  /\ pc = "done"
  /\ Cardinality(ActiveJobs) = 2
  /\ \A i \in ActiveJobs :
       sent[background_processes[i].pid] = << SIGTERM, SIGKILL >>

\* C9: only the poll at the top of the cycle writes completion reports; a
\* job that terminates while a command is running is reported by the next
\* such poll.
C9_Step ==
  /\ (\E p \in Pids : reports'[p] # reports[p]) => PollStep
  /\ (out' # out /\ \E k \in DOMAIN out' : IsDoneLine(out'[k])) => PollStep
  /\ PollStep =>
       \A i \in ActiveJobs :
         LET p == background_processes[i].pid IN
         procs[p].state = "zombie" => reports'[p] = reports[p] + 1
C9_ReportsOnlyAtTopOfCycle == [][C9_Step]_vars

\* A background job has terminated while a foreground child is being waited
\* for, and is not reported yet.
C9_Witness ==
  /\ pc = "fgwait"
  /\ procs[fg_pid].state = "running"
  /\ \E i \in ActiveJobs :
       /\ procs[background_processes[i].pid].state = "zombie"
       /\ reports[background_processes[i].pid] = 0

\* C10: every delivery of SIGTSTP flips foreground_only_mode, so the mode is
\* on exactly after an odd number of deliveries, and a trailing-& command is
\* waited for after an odd number and launched in the background after an even
\* number.
C10_Step ==
  /\ tstp_count' # tstp_count
       => foreground_only_mode' = ~foreground_only_mode
  /\ \A p \in NewPids :
       procs'[p].background =>
         IF tstp_count = 1
           THEN pc' = "fgwait" /\ fg_pid' = p
           ELSE pc' = "poll" /\ out' = << << "background pid is", p >> >>
C10_DoubleToggleRestores ==
  [](foreground_only_mode = (tstp_count = 1)) /\ [][C10_Step]_vars

\* A trailing-& command was waited for in the foreground, the mode has been
\* left since, and the command just dispatched is launched in the background.
C10_Witness ==
  /\ tstp_count = 0
  /\ notice = "Exiting foreground-only mode"
  /\ last_fg.background
  /\ pc = "poll"
  /\ \E p \in Pids :
       /\ out = << << "background pid is", p >> >>
       /\ procs[p].run_background

\* The step is main's loop body on line k, from fgets to the end of the
\* dispatch or to the blocking wait.
Handles(k) ==
  /\ pc = "prompt"
  /\ \/ ReadNothingOf(k)
     \/ BuiltinExitOf(k)
     \/ BuiltinCdOf(k)
     \/ BuiltinStatusOf(k)
     \/ ExternalOf(k)

\* The step dispatches nothing: no built-in runs, no child is forked, and the
\* session's state is as before.
NothingDispatched ==
  /\ builtin_type' = "NONE"
  /\ NewPids = {}
  /\ UNCHANGED << procs, background_processes, bg_process_count,
                  foreground_only_mode, last_exit_status, last_signal, cwd,
                  nforks, exit_code >>

\* The last line the step wrote is line.
WroteLast(line) == out' # << >> /\ out'[Len(out')] = line

\* C11: whatever a line or a foreground command comes to, the shell goes back
\* to the top of the loop: a step out of the prompt leads to the poll or to
\* the wait for a foreground child, and to the cleanup only by exit or end of
\* input; a step out of the wait leads to the poll; so do a parse error, a
\* failed fork, a failed wait and a failed cd; the shell has not exited
\* unless the cleanup has run; at the top of the loop the poll can be taken,
\* and at the prompt every line of the input can be handled.
C11_Inv ==
  /\ pc = "poll" => ENABLED Poll
  /\ pc = "prompt" => \A k \in script : ENABLED Handles(k)
  /\ exit_code # -1 => pc = "done"
C11_Step ==
  /\ (pc = "prompt" /\ pc' # "prompt") =>
       \/ pc' \in {"poll", "fgwait"}
       \/ /\ pc' = "cleanup"
          /\ \/ builtin_type' = "BUILTIN_EXIT"
             \/ out' = << << "EOF detected - exiting shell" >> >>
  /\ (pc = "fgwait" /\ pc' # "fgwait") => pc' = "poll"
  /\ \A k \in script : (Parsed[k].result = -1 /\ Handles(k)) => pc' = "poll"
  /\ (/\ pc \in {"prompt", "fgwait"}
      /\ pc' # pc
      /\ \/ WroteLast(<< "fork failed" >>)
         \/ WroteLast(<< "waitpid failed" >>)
         \/ WroteLast(<< "cd: error" >>)
         \/ WroteLast(<< "cd: too many arguments" >>)
         \/ WroteLast(<< "cd: HOME environment variable not set" >>))
       => pc' = "poll"
C11_LoopContinues == [](C11_Inv) /\ [][C11_Step]_vars

\* After a failed fork on the first command the shell is at the prompt again.
C11_Witness ==
  /\ pc = "prompt"
  /\ status = 1
  /\ last_exit_status = 0
  /\ nforks = 0
  /\ exit_code = -1

\* The lines of more than MAX_LINE_LENGTH characters before the newline.
LongLines == {k \in DOMAIN Lines : Len(Lines[k]) > MAX_LINE_LENGTH + 1}

\* C12: for a line of more than MAX_LINE_LENGTH characters something is
\* reported and nothing is dispatched.
C12_LongLineDiscarded ==
  [][\A k \in script \cap LongLines :
       Handles(k) => (out' # << >> /\ NothingDispatched /\ pc' = "poll")]_vars

\* The lines whose command is one of the three built-ins.
BuiltinLines ==
  {k \in DOMAIN Lines :
     /\ Parsed[k].result = 0
     /\ Parsed[k].cmd.command \in {TokExit, TokCd, TokStatus}}

\* C13: handling a line whose command is exit, cd or status forks no child,
\* leaves the registry as it is, reports no background pid and waits for no
\* child, with or without a trailing & and in either mode.
C13_BuiltinsInShell ==
  [][\A k \in script \cap BuiltinLines :
       Handles(k) =>
         /\ builtin_type' \in {"BUILTIN_EXIT", "BUILTIN_CD", "BUILTIN_STATUS"}
         /\ NewPids = {}
         /\ UNCHANGED << procs, background_processes, bg_process_count,
                         nforks, fg_pid, foreground_only_mode >>
         /\ pc' \in {"poll", "cleanup"}
         /\ \A i \in DOMAIN out' : out'[i][1] # "background pid is"]_vars

\* status has run in the shell while a background job is running and the
\* shell is not in foreground-only mode.
C13_Witness ==
  /\ pc = "poll"
  /\ builtin_type = "BUILTIN_STATUS"
  /\ ~foreground_only_mode
  /\ nforks = 1
  /\ \E i \in ActiveJobs : procs[background_processes[i].pid].state = "running"

\* The lines whose command is cd.
CdLines ==
  {k \in DOMAIN Lines :
     Parsed[k].result = 0 /\ Parsed[k].cmd.command = TokCd}

\* What cd reports when it fails.
CdFailures ==
  {<< "cd: HOME environment variable not set" >>,
   << "cd: too many arguments" >>,
   << "cd: error" >>}

\* C14: cd leaves last_exit_status and last_signal as they are; it either
\* reports the change to its target, or reports a failure and leaves the
\* working directory as it is; and it fails when it has no argument and HOME
\* is unset and when it has two or more arguments.
C14_CdKeepsStatus ==
  [][\A k \in script \cap CdLines :
       Handles(k) =>
         LET arg_count == Len(Parsed[k].cmd.args) - 1 IN
         /\ UNCHANGED << last_exit_status, last_signal >>
         /\ StatusLine' = StatusLine
         /\ out' # << >>
         /\ \/ out'[Len(out')] \in CdFailures /\ cwd' = cwd
            \/ /\ out'[Len(out')] = << "Changed directory to", cwd' >>
               /\ arg_count <= 1
               /\ cwd' = IF arg_count = 0 THEN home ELSE Parsed[k].cmd.args[2]
         /\ (arg_count = 0 /\ home = NULL)
              => WroteLast(<< "cd: HOME environment variable not set" >>)
         /\ arg_count >= 2 => WroteLast(<< "cd: too many arguments" >>)]_vars

\* cd has failed for too many arguments after a foreground child was killed:
\* the directory is the one of an earlier cd, status still reports the signal.
C14_Witness ==
  /\ pc = "poll"
  /\ builtin_type = "BUILTIN_CD"
  /\ out = << << "cd: too many arguments" >> >>
  /\ cwd # << "/" >>
  /\ last_signal # 0

\* C15: every child has SIGTSTP ignored; it has SIGINT ignored when it runs
\* in the background and the default when it runs in the foreground, by the
\* effective decision made from the command's flag and the mode at the fork;
\* the shell ignores SIGINT throughout, and a SIGINT from the terminal ends
\* no background child and leaves the shell where it is.
C15_Inv ==
  /\ sigint_disposition = "SIG_IGN"
  /\ \A p \in Pids :
       procs[p].state = "running" =>
         /\ procs[p].sigtstp = "SIG_IGN"
         /\ procs[p].sigint =
              IF procs[p].run_background THEN "SIG_IGN" ELSE "SIG_DFL"
         /\ (procs[p].sigint = "SIG_DFL") = (p = fg_pid)
C15_Step ==
  /\ \A p \in NewPids :
       /\ procs'[p].sigtstp = "SIG_IGN"
       /\ procs'[p].sigint =
            IF procs'[p].background /\ ~foreground_only_mode
              THEN "SIG_IGN"
              ELSE "SIG_DFL"
  /\ Interrupt =>
       /\ pc' = pc
       /\ exit_code' = exit_code
       /\ \A p \in Pids : p # fg_pid => procs'[p] = procs[p]
C15_ChildDispositions == [](C15_Inv) /\ [][C15_Step]_vars

\* A trailing-& command forced to the foreground runs with the default
\* disposition of SIGINT next to a background child that ignores it.
C15_Witness ==
  /\ pc = "fgwait"
  /\ procs[fg_pid].state = "running"
  /\ procs[fg_pid].background
  /\ procs[fg_pid].sigint = "SIG_DFL"
  /\ \E p \in Pids :
       /\ procs[p].state = "running"
       /\ procs[p].run_background
       /\ procs[p].sigint = "SIG_IGN"

\* C16: each of the two standard streams of a child is bound to the
\* command's redirection target when it has one; without one it is bound to
\* the null device when the child effectively runs in the background and is
\* left as the shell has it otherwise; each stream by its own target.
C16_Stream(file, effective_background) ==
  IF file # NULL THEN file
  ELSE IF effective_background THEN DevNull
  ELSE NULL
C16_StreamsBound ==
  [][\A k \in script :
       Handles(k) =>
         \A p \in NewPids :
           LET command == Parsed[k].cmd
               effective == command.background /\ ~foreground_only_mode IN
           /\ procs'[p].stdin = C16_Stream(command.input_file, effective)
           /\ procs'[p].stdout = C16_Stream(command.output_file, effective)
           /\ effective = (pc' = "poll")]_vars

\* A background child reads the file it was given and writes to the null
\* device, while a trailing-& command forced to the foreground writes to the
\* file it was given and reads what the shell reads.
C16_Witness ==
  /\ pc = "fgwait"
  /\ procs[fg_pid].state = "running"
  /\ procs[fg_pid].background
  /\ procs[fg_pid].stdin = NULL
  /\ procs[fg_pid].stdout = << "g" >>
  /\ \E p \in Pids :
       /\ procs[p].state = "running"
       /\ procs[p].run_background
       /\ procs[p].stdin = << "f" >>
       /\ procs[p].stdout = DevNull

\* The lines of nothing but spaces, tabs and newlines, and those whose first
\* other character is #.
IsSkipLine(line) ==
  LET ink == {i \in 1..Len(line) : line[i] \notin {" ", "\t", "\n"}} IN
  \/ ink = {}
  \/ line[CHOOSE i \in ink : \A j \in ink : i <= j] = "#"
SkipLines == {k \in DOMAIN Lines : IsSkipLine(Lines[k])}

\* C17: for a blank line or a comment parse_command returns 1, and main
\* writes nothing, dispatches nothing and goes back to the top of the loop.
C17_SkipLines ==
  [][\A k \in script \cap SkipLines :
       Handles(k) =>
         /\ Parsed[k].result = 1
         /\ Parsed[k].cmd = init_command
         /\ NothingDispatched
         /\ UNCHANGED << last_exit_status, last_signal, foreground_only_mode >>
         /\ out' = << >>
         /\ pc' = "poll"]_vars

\* A blank line or a comment has been read in foreground-only mode after a
\* foreground child exited with 1: nothing was written, nothing changed.
C17_Witness ==
  /\ pc = "poll"
  /\ builtin_type = "NONE"
  /\ out = << >>
  /\ foreground_only_mode
  /\ last_exit_status = 1

\* The tokens of the line handed to parse_command.
ParseTokens == StrtokAll(parse_line)

\* C18: the parse has an input file only when a token < standing alone is
\* followed by it, and an output file only when a token > standing alone is;
\* `cmd < infile` gives the input file infile and the one argument cmd,
\* `cmd <infile` gives no input file and the arguments cmd and <infile; and
\* the same for > and the output file.
C18_Redirect(op, file, other) ==
  LET t == ParseTokens IN
  /\ file # NULL =>
       \E i \in 1..(Len(t) - 1) : t[i] = << op >> /\ t[i + 1] = file
  /\ (Len(t) = 3 /\ t[1] \notin {<< "<" >>, << ">" >>} /\ t[2] = << op >>) =>
       /\ parse_result = 0
       /\ file = t[3]
       /\ other = NULL
       /\ parse_cmd.args = << t[1] >>
  /\ (/\ Len(t) = 2
      /\ t[1] \notin {<< "<" >>, << ">" >>}
      /\ Len(t[2]) > 1
      /\ t[2][1] = op) =>
       /\ parse_result = 0
       /\ file = NULL
       /\ other = NULL
       /\ parse_cmd.args = << t[1], t[2] >>
C18_StandaloneOperators ==
  pc = "parsed" =>
    /\ C18_Redirect("<", parse_cmd.input_file, parse_cmd.output_file)
    /\ C18_Redirect(">", parse_cmd.output_file, parse_cmd.input_file)

\* parse_command has returned for the line `a <a`.
C18_Witness ==
  /\ pc = "parsed"
  /\ parse_line = << "a", " ", "<", "a" >>
  /\ parse_result = 0
  /\ parse_cmd.input_file = NULL
  /\ parse_cmd.args = << << "a" >>, << "<", "a" >> >>

\* C19: the background flag is set only when the last token is &; on a line
\* without redirection operators the arguments are the tokens, less a last
\* &, so that an & before the last token is an argument at its place; and a
\* line with an & before a last token that is not & has the flag unset.
C19_AmpersandLastOnly ==
  pc = "parsed" =>
    LET t == ParseTokens
        n == Len(t) IN
    /\ parse_cmd.background => (n > 0 /\ t[n] = << "&" >>)
    /\ (/\ parse_result = 0
        /\ \A i \in 1..n : t[i] \notin {<< "<" >>, << ">" >>}) =>
         /\ parse_cmd.background = (t[n] = << "&" >>)
         /\ parse_cmd.args =
              IF t[n] = << "&" >> THEN SubSeq(t, 1, n - 1) ELSE t
    /\ (/\ n > 0
        /\ t[n] # << "&" >>
        /\ \E i \in 1..(n - 1) : t[i] = << "&" >>) =>
         ~parse_cmd.background

\* parse_command has returned for the line `a & a`.
C19_Witness ==
  /\ pc = "parsed"
  /\ parse_line = << "a", " ", "&", " ", "a" >>
  /\ parse_result = 0
  /\ ~parse_cmd.background
  /\ parse_cmd.args = << << "a" >>, << "&" >>, << "a" >> >>

\* The lines whose last token is < or > after a token that is neither, so
\* that the last token is not the filename of an operator before it.
IsDangling(line) ==
  LET t == StrtokAll(line)
      n == Len(t) IN
  /\ n > 0
  /\ t[n] \in {<< "<" >>, << ">" >>}
  /\ n > 1 => t[n - 1] \notin {<< "<" >>, << ">" >>}
DanglingLines == {k \in DOMAIN Lines : IsDangling(Fgets(Lines[k]))}

NumTokens(line) == Cardinality(TokenStarts(line))
KthToken(line, k) ==
  LET starts == TokenStarts(line)
      i == CHOOSE j \in starts : Cardinality({h \in starts : h < j}) = k - 1
  IN SubSeq(line, i, TokenEnd(line, i))

\* C21: tokenize_line accepts a line of at most MAX_LINE_LENGTH characters
\* and at most MAX_ARGS tokens and hands back all its tokens in order; it
\* returns -1 and hands back no token for a longer line and for a line of
\* more tokens.
C21_TokenizeLimits ==
  pc = "tokenized" =>
    LET line == parse_line
        found == NumTokens(line) IN
    /\ (Len(line) <= MAX_LINE_LENGTH /\ found <= MAX_ARGS) =>
         /\ tk_count = found
         /\ Len(tk_tokens) = found
         /\ out = << >>
         /\ Len(line) <= MaxLen =>
              \A k \in 1..found : tk_tokens[k] = KthToken(line, k)
         /\ Len(line) > MaxLen =>
              \A k \in 1..found : tk_tokens[k] = << "a" >>
    /\ (Len(line) > MAX_LINE_LENGTH \/ found >= MAX_ARGS + 1) =>
         /\ tk_count = -1
         /\ tk_tokens = << >>
         /\ out # << >>

\* tokenize_line has returned for a line of MAX_LINE_LENGTH characters and
\* MAX_ARGS tokens.
C21_Witness ==
  /\ pc = "tokenized"
  /\ Len(parse_line) = MAX_LINE_LENGTH
  /\ tk_count = MAX_ARGS
  /\ Len(tk_tokens) = MAX_ARGS

\* C22: the handler can run wherever main is, and a step in which it runs
\* toggles foreground_only_mode, writes one of its two notices and leaves
\* the registry, the last-status fields, the children and main's position
\* as they are; no other step changes the mode.
C22_Inv == pc # "done" => ENABLED sigtstp_handler
C22_Step ==
  /\ tstp_count' # tstp_count =>
       /\ foreground_only_mode' = ~foreground_only_mode
       /\ notice' = IF foreground_only_mode'
            THEN "Entering foreground-only mode (& is now ignored)"
            ELSE "Exiting foreground-only mode"
       /\ UNCHANGED << background_processes, bg_process_count,
                       last_exit_status, last_signal, procs, pc, fg_pid, ci,
                       cwd, out, reports, sent >>
  /\ foreground_only_mode' # foreground_only_mode => tstp_count' # tstp_count
C22_HandlerOnlyToggles == [](C22_Inv) /\ [][C22_Step]_vars

\* The shell is in the middle of the exit cleanup, in foreground-only mode,
\* with an active job that was launched when the mode was off and with the
\* signal of a killed foreground child on record.
C22_Witness ==
  /\ pc = "grace"
  /\ foreground_only_mode
  /\ notice = "Entering foreground-only mode (& is now ignored)"
  /\ ActiveJobs # {}
  /\ last_signal # 0

\* C23: when parse_command succeeds on a line whose last token is &, the
\* background flag is set and that & is neither an argument nor a
\* redirection target, also when the token before it is < or >.
C23_FinalAmpersandSetsBackground ==
  pc = "parsed" =>
    LET t == ParseTokens
        n == Len(t) IN
    (parse_result = 0 /\ n > 0 /\ t[n] = << "&" >>) =>
      /\ parse_cmd.background
      /\ (n > 1 /\ t[n - 1] = << "<" >>) => parse_cmd.input_file # << "&" >>
      /\ (n > 1 /\ t[n - 1] = << ">" >>) => parse_cmd.output_file # << "&" >>
      /\ Len(parse_cmd.args) < n

\* The token at i is the filename of an operator: the token before it is a
\* < or > that is not itself a filename.
RECURSIVE IsTarget(_, _)
IsTarget(t, i) ==
  /\ i > 1
  /\ t[i - 1] \in {<< "<" >>, << ">" >>}
  /\ ~IsTarget(t, i - 1)

\* The tokens that are no operator, no operator's filename and not the
\* trailing &, in the order of the line.
PlainTokens(t) ==
  LET IsPlain(i) ==
        /\ ~IsTarget(t, i)
        /\ t[i] \notin {<< "<" >>, << ">" >>}
        /\ ~(i = Len(t) /\ t[i] = << "&" >>)
      plain == SelectSeq([i \in 1..Len(t) |-> i], IsPlain)
  IN [k \in 1..Len(plain) |-> t[plain[k]]]

\* C24: when parse_command succeeds the command is not empty, the arguments
\* are the plain tokens of the line in their order, and the command is the
\* first of them; a line that has tokens but no plain token does not parse
\* successfully.
C24_CommandIsFirstPlainToken ==
  pc = "parsed" =>
    LET t == ParseTokens
        plain == PlainTokens(t) IN
    /\ parse_result = 0 =>
         /\ Len(plain) > 0
         /\ parse_cmd.command # NULL
         /\ parse_cmd.command = plain[1]
         /\ parse_cmd.args = plain
    /\ (Len(t) > 0 /\ Len(plain) = 0) => parse_result = -1

\* parse_command has returned for the line `< a a`: the command is the
\* third token and the only argument.
C24_Witness ==
  /\ pc = "parsed"
  /\ parse_line = << "<", " ", "a", " ", "a" >>
  /\ parse_cmd.input_file = << "a" >>
  /\ parse_result = 0
  /\ parse_cmd.command = << "a" >>
  /\ parse_cmd.args = << << "a" >> >>

\* C25: a child that fails on its own side ends with exit code 1 and nothing
\* of the shell changes; the wait for a foreground child that ended can
\* return; when it returns for a child that ended with exit code 1 the shell
\* is back at the top of the loop and status reports exit value 1; and a poll
\* that finds an active job ended with exit code 1 reports it done with exit
\* value 1.
C25_Inv ==
  /\ (pc = "fgwait" /\ procs[fg_pid].state = "zombie") => ENABLED ForegroundDone
  /\ exit_code # -1 => pc = "done"
C25_Step ==
  /\ ChildFails =>
       /\ UNCHANGED << pc, exit_code, last_exit_status, last_signal,
                       background_processes, bg_process_count, cwd,
                       foreground_only_mode, fg_pid >>
       /\ \E p \in Pids :
            /\ procs[p].state = "running"
            /\ procs'[p].state \in {"zombie", "gone"}
            /\ procs'[p].state = "zombie" =>
                 (procs'[p].how = "exit" /\ procs'[p].n = 1)
            /\ \A q \in Pids \ {p} : procs'[q] = procs[q]
  /\ (/\ pc = "fgwait"
      /\ pc' # pc
      /\ procs[fg_pid].state = "zombie"
      /\ procs[fg_pid].how = "exit"
      /\ procs[fg_pid].n = 1) =>
       /\ pc' = "poll"
       /\ exit_code' = -1
       /\ StatusLine' = << "exit value", 1 >>
  /\ \A i \in ActiveJobs :
       LET p == background_processes[i].pid IN
       (/\ pc = "poll"
        /\ pc' = "prompt"
        /\ procs[p].state = "zombie"
        /\ procs[p].how = "exit"
        /\ procs[p].n = 1) =>
         /\ \E j \in DOMAIN out' :
              out'[j] = << "background pid is done: exit value", p, 1 >>
         /\ ~background_processes'[i].active
         /\ UNCHANGED << last_exit_status, last_signal >>
C25_ChildFailureContained == [](C25_Inv) /\ [][C25_Step]_vars

\* The shell is at the prompt after a foreground child ended with exit code
\* 1 and the poll reported a background job done with exit value 1.
C25_Witness ==
  /\ pc = "prompt"
  /\ exit_code = -1
  /\ last_exit_status = 1
  /\ last_signal = 0
  /\ \E p \in Pids :
       out = << << "background pid is done: exit value", p, 1 >> >>

\* The children that have a registry entry.
TrackedPids == {background_processes[i].pid : i \in DOMAIN background_processes}

\* C26: bg_process_count stays within 0..MAX_BG_PROCESSES and never
\* decreases; an entry keeps its pid and an inactive entry stays inactive; a
\* background launch made when the count is MAX_BG_PROCESSES leaves the
\* registry as it is, whether or not the earlier jobs are inactive; and a
\* child without an entry is never reported done and never sent a signal.
C26_Inv ==
  /\ bg_process_count \in 0..MAX_BG_PROCESSES
  /\ \A p \in Pids \ TrackedPids : reports[p] = 0 /\ sent[p] = << >>
C26_Step ==
  /\ bg_process_count' >= bg_process_count
  /\ Len(background_processes') >= Len(background_processes)
  /\ \A i \in DOMAIN background_processes :
       /\ background_processes'[i].pid = background_processes[i].pid
       /\ ~background_processes[i].active => ~background_processes'[i].active
  /\ \A p \in NewPids :
       (procs'[p].run_background /\ bg_process_count = MAX_BG_PROCESSES) =>
         /\ UNCHANGED << background_processes, bg_process_count >>
         /\ p \notin TrackedPids'
         /\ out' = << << "background pid is", p >> >>
C26_CapacityIsCumulative == [](C26_Inv) /\ [][C26_Step]_vars

\* The shell has exited after a session in which the registry filled up, its
\* last job ended and was collected, and one more background child was
\* launched: that child has no entry, still runs and was sent no signal.
C26_Witness ==
  /\ pc = "done"
  /\ bg_process_count = MAX_BG_PROCESSES
  /\ background_processes # << >>
  /\ ActiveJobs = {}
  /\ \E p \in Pids \ TrackedPids :
       /\ procs[p].run_background
       /\ procs[p].state = "running"
       /\ sent[p] = << >>
       /\ reports[p] = 0

\* C27: while the foreground child runs the wait does not return, whatever
\* background jobs have ended; the step in which it returns collects the
\* foreground child and no other, records that child's outcome in the
\* last-status fields and leaves the registry as it is, so that a job that
\* ended meanwhile is still active and uncollected.
C27_Inv ==
  (pc = "fgwait" /\ procs[fg_pid].state = "running") =>
    /\ ~ENABLED ForegroundDone
    /\ ~ENABLED ForegroundWaitFailed
C27_Step ==
  (pc = "fgwait" /\ pc' # "fgwait") =>
    /\ procs[fg_pid].state \in {"zombie", "gone"}
    /\ \A q \in Pids \ {fg_pid} : procs'[q] = procs[q]
    /\ UNCHANGED << background_processes, bg_process_count, reports >>
    /\ \A i \in ActiveJobs :
         procs[background_processes[i].pid].state = "zombie" =>
           /\ background_processes'[i].active
           /\ procs'[background_processes[i].pid].state = "zombie"
    /\ procs[fg_pid].state = "zombie" =>
         /\ procs'[fg_pid].state = "reaped"
         /\ last_exit_status' =
              IF procs[fg_pid].how = "exit" THEN procs[fg_pid].n ELSE 0
         /\ last_signal' =
              IF procs[fg_pid].how = "signal" THEN procs[fg_pid].n ELSE 0
C27_WaitsForForegroundOnly == [](C27_Inv) /\ [][C27_Step]_vars

\* A foreground command has just ended with exit code 1 while a job that was
\* killed is still active and uncollected: status reports exit value 1.
C27_Witness ==
  /\ pc = "poll"
  /\ builtin_type = "NOT_BUILTIN"
  /\ last_fg = [how |-> "exit", n |-> 1, background |-> FALSE]
  /\ last_exit_status = 1
  /\ last_signal = 0
  /\ \E i \in ActiveJobs :
       /\ procs[background_processes[i].pid].state = "zombie"
       /\ procs[background_processes[i].pid].how = "signal"

====
